---- MODULE Spec2Model ----
(***************************************************************************)
(* Model of src/lib/enphase-envoy.ts: the FileTokenStorage token cache,    *)
(* the PKCE handshake of Main.authenticate (get_code, get_jwt, save), the  *)
(* metrics fetch Main.get_current_power and the entry point Main.main.     *)
(*                                                                         *)
(* Every async function is cut at its await points: one action per         *)
(* continuation.  A request is issued by the continuation that precedes    *)
(* the await, its response is consumed by the continuation that follows.   *)
(* Several invocations on the same Main instance and the same token file   *)
(* may be in flight at once (nothing in the code prevents it).             *)
(***************************************************************************)
EXTENDS Integers, Sequences, FiniteSets, TLC

\* ---------------------------------------------------------------- bounds
\* total number of authenticate()/main() invocations started in a behaviour
MaxCalls == 3
\* total number of entries in the arrays of a /production.json body
MaxItems == 2
\* longest random byte string a verifier is encoded from
MaxBytes == 3

\* ------------------------------------------------------------ JS values
\* JavaScript undefined / null, and "file does not exist", as string sentinels
UNDEFINED == "<undefined>"
NULL == "<null>"
ENOENT == "<ENOENT>"
\* no Authorization entry in envoyHttp.defaults.headers.common
NoHeader == "<no-header>"

\* the invocations that may overlap on one Main instance
Callers == {"a", "b"}

\* access tokens the device may return
Tokens == {"tok-1", "tok-2"}
\* content of ./token.dat when the process starts
InitialStores == {ENOENT, "", "tok-0"}

\* `${jwt}` inside a template literal
ToStr(v) == IF v = UNDEFINED THEN "undefined" ELSE IF v = NULL THEN "null" ELSE v

\* `Bearer ${jwt}`
Bearer(jwt) == "Bearer " \o ToStr(jwt)

\* mutant: the cached token is never used
CacheMiss_Always(jwt) == TRUE

\* mutant: the test inverted (jwt != undefined)
CacheMiss_Inverted(jwt) == ~(jwt = UNDEFINED \/ jwt = NULL)

\* the test `jwt == undefined` (loose equality: undefined and null only)
CacheMiss(jwt) == jwt = UNDEFINED \/ jwt = NULL

\* generate_code_verifier: 32 fresh random bytes; the n-th draw is named v<n>
generate_code_verifier(n) == "v" \o ToString(n)

\* generate_code_challenge: a deterministic, injective digest of the verifier text
generate_code_challenge(code_verifier) == "S256(" \o code_verifier \o ")"

\* ------------------------------------------------------ PKCE, byte level
\* byte values that make every case of the encoding happen ('+', '/', padding)
ByteValues == {0, 105, 251, 255}
\* crypto.randomBytes: the byte strings of 1 to MaxBytes bytes
RandomBytes == UNION { [1..n -> ByteValues] : n \in 1..MaxBytes }

\* the base64 alphabet; sextet i is written Alphabet[i + 1]
Alphabet ==
    << "A", "B", "C", "D", "E", "F", "G", "H", "I", "J", "K", "L", "M",
       "N", "O", "P", "Q", "R", "S", "T", "U", "V", "W", "X", "Y", "Z",
       "a", "b", "c", "d", "e", "f", "g", "h", "i", "j", "k", "l", "m",
       "n", "o", "p", "q", "r", "s", "t", "u", "v", "w", "x", "y", "z",
       "0", "1", "2", "3", "4", "5", "6", "7", "8", "9", "+", "/" >>

\* bit j (from 1, most significant first) of a byte string; 0 past its end
BitAt(bytes, j) ==
    IF j > 8 * Len(bytes) THEN 0
    ELSE (bytes[((j - 1) \div 8) + 1] \div (2 ^ (7 - ((j - 1) % 8)))) % 2

\* the k-th group of six bits
Sextet(bytes, k) ==
    32 * BitAt(bytes, 6 * k - 5) + 16 * BitAt(bytes, 6 * k - 4)
    + 8 * BitAt(bytes, 6 * k - 3) + 4 * BitAt(bytes, 6 * k - 2)
    + 2 * BitAt(bytes, 6 * k - 1) + BitAt(bytes, 6 * k)

\* Buffer.toString('base64'): one character per sextet, '=' up to a multiple of 4
Base64(bytes) ==
    LET n == (8 * Len(bytes) + 5) \div 6
        padded == 4 * ((n + 3) \div 4)
    IN [k \in 1..padded |-> IF k <= n THEN Alphabet[Sextet(bytes, k) + 1] ELSE "="]

\* String.replace(/x/g, y) on a text given as its characters
ReplaceAll(text, x, y) == [i \in DOMAIN text |-> IF text[i] = x THEN y ELSE text[i]]
IsNotPad(ch) == ch # "="

\* generate_code_verifier on given random bytes: base64, '+' to '-', '/' to '_',
\* '=' removed
EncodeVerifier(bytes) ==
    SelectSeq(ReplaceAll(ReplaceAll(Base64(bytes), "+", "-"), "/", "_"), IsNotPad)

\* the code of a character of a verifier (its one UTF-8 byte)
CharCode(ch) ==
    IF ch = "-" THEN 45
    ELSE IF ch = "_" THEN 95
    ELSE LET i == CHOOSE k \in 1..62 : Alphabet[k] = ch IN
         IF i <= 26 THEN 64 + i ELSE IF i <= 52 THEN 70 + i ELSE i - 5

\* the bytes Hash.update(string) feeds to the hash: the UTF-8 encoding of the text
Utf8(text) == [i \in DOMAIN text |-> CharCode(text[i])]

\* SHA-256 as an ideal hash: the digest names its input
Sha256(input) == [sha256 |-> input]
\* Buffer.toString('base64url') of a digest
Base64UrlOfDigest(digest) == [base64url |-> digest]

\* ------------------------------------------------------- HTTP responses
\* statuses a server may answer with (validateStatus accepts every status)
LoginStatuses == {302, 401}
JwtStatuses == {200, 401}
MetricsStatuses == {200, 401}

\* Location header of the login response: url = FALSE stands for a missing or
\* unparsable header, query is the list of <<name, value>> pairs of the URL
Locations ==
    { [url |-> FALSE, query |-> <<>>],
      [url |-> TRUE, query |-> << <<"state", "">> >>],
      [url |-> TRUE, query |-> << <<"state", "">>, <<"code", "ABC123">> >>] }

\* URLSearchParams.get(name): the first value of that name, null when there is none
RECURSIVE SearchParamsGet(_, _)
SearchParamsGet(query, name) ==
    IF query = <<>> THEN NULL
    ELSE IF Head(query)[1] = name THEN Head(query)[2]
    ELSE SearchParamsGet(Tail(query), name)

\* body of the /auth/get_jwt response: parsed = FALSE is a body that is null
\* after parsing; access_token is UNDEFINED when the field is missing
JwtBodies ==
    { [parsed |-> FALSE, access_token |-> UNDEFINED] }
    \cup { [parsed |-> TRUE, access_token |-> t] : t \in Tokens \cup {UNDEFINED} }

\* ------------------------------------------------------------- numbers
\* a JavaScript value met in the metrics reduction: a number, NaN or undefined
Num(n) == [k |-> "number", v |-> n]
NaN == [k |-> "NaN", v |-> 0]
Undef == [k |-> "undefined", v |-> 0]

\* sum + x on such values
Plus(a, b) ==
    IF a.k = "number" /\ b.k = "number" THEN Num(a.v + b.v) ELSE NaN

WNowValues == {Num(1), Num(-2), Undef}
ProductionItems ==
    [type : {"eim", "inverters"}, wNow : WNowValues]
ConsumptionItems ==
    [type : {"eim", "other"},
     measurementType : {"total-consumption", "net-consumption"},
     wNow : WNowValues]

SeqsUpTo(S, n) == UNION { [1..k -> S] : k \in 0..n }

\* a parsed /production.json body; has_* = FALSE when the array is missing
MetricsBody(hp, p, hc, c) ==
    [has_production |-> hp, production |-> p, has_consumption |-> hc, consumption |-> c]

\* every body with at most MaxItems entries in all
Bodies ==
    { MetricsBody(TRUE, p, TRUE, c) :
        <<p, c>> \in { pair \in SeqsUpTo(ProductionItems, MaxItems)
                               \X SeqsUpTo(ConsumptionItems, MaxItems) :
                       Len(pair[1]) + Len(pair[2]) <= MaxItems } }
    \cup { MetricsBody(FALSE, <<>>, TRUE, <<>>), MetricsBody(TRUE, <<>>, FALSE, <<>>) }

\* two bodies: one without its production array, and the specification's example
SampleBodies ==
    { MetricsBody(FALSE, <<>>, TRUE, <<>>),
      MetricsBody(TRUE,
          << [type |-> "eim", wNow |-> Num(500)], [type |-> "other", wNow |-> Num(999)] >>,
          TRUE,
          << [type |-> "eim", measurementType |-> "total-consumption", wNow |-> Num(200)],
             [type |-> "eim", measurementType |-> "net-consumption", wNow |-> Num(-50)] >>) }

\* Array.prototype.reduce((sum, x) => sum + x, sum) over the addends
RECURSIVE Reduce(_, _)
Reduce(sum, addends) ==
    IF addends = <<>> THEN sum
    ELSE Reduce(Plus(sum, Head(addends)), Tail(addends))

\* the addend of each entry: item.type === 'eim' ? item.wNow : 0
ProductionAddends(items) ==
    [i \in DOMAIN items |->
        IF items[i].type = "eim" THEN items[i].wNow ELSE Num(0)]

\* mutant: the consumption filter without its measurementType test
ConsumptionAddends_AnyMeasurement(items) ==
    [i \in DOMAIN items |->
        IF items[i].type = "eim" THEN items[i].wNow ELSE Num(0)]

\* item.type === 'eim' && item.measurementType === 'total-consumption' ? item.wNow : 0
ConsumptionAddends(items) ==
    [i \in DOMAIN items |->
        IF items[i].type = "eim" /\ items[i].measurementType = "total-consumption"
        THEN items[i].wNow ELSE Num(0)]

\* mutant: the net filter without its type test
NetAddends_AnyType(items) ==
    [i \in DOMAIN items |->
        IF items[i].measurementType = "net-consumption" THEN items[i].wNow ELSE Num(0)]

\* item.type === 'eim' && item.measurementType === 'net-consumption' ? item.wNow : 0
NetAddends(items) ==
    [i \in DOMAIN items |->
        IF items[i].type = "eim" /\ items[i].measurementType = "net-consumption"
        THEN items[i].wNow ELSE Num(0)]

\* the object get_current_power returns for a 200 body with both arrays
PowerOf(body) ==
    [production |-> Reduce(Num(0), ProductionAddends(body.production)),
     consumption |-> Reduce(Num(0), ConsumptionAddends(body.consumption)),
     net |-> Reduce(Num(0), NetAddends(body.consumption))]

\* ------------------------------------------------- results of the calls
\* an async function either throws (<<>>) or returns one value (<<v>>)
Throw == <<>>
Return(v) == <<v>>
Thrown(r) == Len(r) = 0

\* mutant: get_code without its status check
get_code_NoStatusCheck(status, location) ==
    IF ~location.url THEN Throw
    ELSE Return(SearchParamsGet(location.query, "code"))

\* get_code after the response: status check, then new URL(location), then
\* searchParams.get('code')
get_code(status, location) ==
    IF status # 302 THEN Throw
    ELSE IF ~location.url THEN Throw
    ELSE Return(SearchParamsGet(location.query, "code"))

\* get_jwt after the response: response.data.access_token, whatever the status
get_jwt(status, body) ==
    IF ~body.parsed THEN Throw ELSE Return(body.access_token)

\* fs.writeFile rejects data that is neither a string nor a buffer
SaveRejects(token) == token \in {UNDEFINED, NULL}

\* mutant: get_current_power without its status check
get_current_power_NoStatusCheck(status, body) ==
    IF ~body.has_production \/ ~body.has_consumption THEN Throw
    ELSE Return(PowerOf(body))

\* get_current_power after the response: status check, then the three reductions
\* (.reduce of a missing array throws)
get_current_power(status, body) ==
    IF status # 200 THEN Throw
    ELSE IF ~body.has_production \/ ~body.has_consumption THEN Throw
    ELSE Return(PowerOf(body))

\* ---------------------------------------------------------------- state
VARIABLES
    store,          \* content of the token file, ENOENT when there is none
    header,         \* envoyHttp.defaults.headers.common['Authorization']
    pc,             \* per invocation: the await it is suspended at
    entry,          \* per invocation: "authenticate" or "main"
    jwt,            \* per invocation: the local jwt of authenticate
    code_verifier,  \* per invocation: the local code_verifier
    code,           \* per invocation: the local code
    loginResp,      \* per invocation: the /login response, <<>> before it
    jwtResp,        \* per invocation: the /auth/get_jwt response, <<>> before it
    powerResp,      \* per invocation: the /production.json response, <<>> before it
    power,          \* per invocation: what get_current_power returned, <<>> if nothing
    trace,          \* per invocation: the calls it made and the effects it had
    calls,          \* invocations started so far
    drawn,          \* verifiers generated so far
    pkce            \* the byte-level run of the two PKCE functions

vars == <<store, header, pc, entry, jwt, code_verifier, code, loginResp, jwtResp,
          powerResp, power, trace, calls, drawn, pkce>>

\* an invocation that has returned or thrown, or a slot not used yet
Resting == {"idle", "Authenticated", "Failed", "PowerDone", "PowerFailed"}
InFlight(c) == pc[c] \notin Resting

InitMain ==
    /\ store \in InitialStores
    /\ header = NoHeader
    /\ pc = [c \in Callers |-> "idle"]
    /\ entry = [c \in Callers |-> "authenticate"]
    /\ jwt = [c \in Callers |-> UNDEFINED]
    /\ code_verifier = [c \in Callers |-> UNDEFINED]
    /\ code = [c \in Callers |-> UNDEFINED]
    /\ loginResp = [c \in Callers |-> <<>>]
    /\ jwtResp = [c \in Callers |-> <<>>]
    /\ powerResp = [c \in Callers |-> <<>>]
    /\ power = [c \in Callers |-> <<>>]
    /\ trace = [c \in Callers |-> <<>>]
    /\ calls = 0
    /\ drawn = 0

\* a byte-level run: the random bytes, then the verifier, then the challenge
\* (<<>> while not computed)
PkceRun(bytes) == [bytes |-> bytes, verifier |-> <<>>, challenge |-> <<>>]

Init ==
    /\ InitMain
    /\ pkce = PkceRun(<<>>)

\* ---------------------------------------------------------- invocations
\* a call of authenticate() or main(): token_storage.load() is called, which
\* calls fs.access, and the invocation suspends
Call(c, e) ==
    /\ ~InFlight(c)
    /\ calls < MaxCalls
    /\ calls' = calls + 1
    /\ pc' = [pc EXCEPT ![c] = "load.access"]
    /\ entry' = [entry EXCEPT ![c] = e]
    /\ jwt' = [jwt EXCEPT ![c] = UNDEFINED]
    /\ code_verifier' = [code_verifier EXCEPT ![c] = UNDEFINED]
    /\ code' = [code EXCEPT ![c] = UNDEFINED]
    /\ loginResp' = [loginResp EXCEPT ![c] = <<>>]
    /\ jwtResp' = [jwtResp EXCEPT ![c] = <<>>]
    /\ powerResp' = [powerResp EXCEPT ![c] = <<>>]
    /\ power' = [power EXCEPT ![c] = <<>>]
    /\ trace' = [trace EXCEPT ![c] = << <<"load">> >>]
    /\ UNCHANGED <<store, header, drawn, pkce>>

authenticate(c) == Call(c, "authenticate")

main(c) == Call(c, "main")

\* mutant: the metrics request is built from the default headers as they were
\* before the assignment
Attach_StaleHeader(c, token, before) ==
    /\ header' = Bearer(token)
    /\ IF entry[c] = "main"
       THEN /\ pc' = [pc EXCEPT ![c] = "get_current_power"]
            /\ trace' = [trace EXCEPT ![c] = @ \o before \o
                            << <<"Authorization", Bearer(token)>>,
                               <<"GET /production.json", header>> >>]
       ELSE /\ pc' = [pc EXCEPT ![c] = "Authenticated"]
            /\ trace' = [trace EXCEPT ![c] = @ \o before \o
                            << <<"Authorization", Bearer(token)>> >>]

\* the last line of authenticate, and what its caller does next: the header is
\* set; under main, get_current_power then issues its request at once, with
\* the client's default headers of that moment
Attach(c, token, before) ==
    /\ header' = Bearer(token)
    /\ IF entry[c] = "main"
       THEN /\ pc' = [pc EXCEPT ![c] = "get_current_power"]
            /\ trace' = [trace EXCEPT ![c] = @ \o before \o
                            << <<"Authorization", Bearer(token)>>,
                               <<"GET /production.json", Bearer(token)>> >>]
       ELSE /\ pc' = [pc EXCEPT ![c] = "Authenticated"]
            /\ trace' = [trace EXCEPT ![c] = @ \o before \o
                            << <<"Authorization", Bearer(token)>> >>]

\* authenticate once load() has returned v
AfterLoad(c, v) ==
    /\ jwt' = [jwt EXCEPT ![c] = v]
    /\ IF CacheMiss(v)
       THEN LET verifier == generate_code_verifier(drawn + 1) IN
            /\ drawn' = drawn + 1
            /\ code_verifier' = [code_verifier EXCEPT ![c] = verifier]
            /\ pc' = [pc EXCEPT ![c] = "get_code"]
            /\ trace' = [trace EXCEPT ![c] = @ \o
                            << <<"loaded", v>>,
                               <<"POST /login", generate_code_challenge(verifier)>> >>]
            /\ UNCHANGED header
       ELSE /\ Attach(c, v, << <<"loaded", v>> >>)
            /\ UNCHANGED <<drawn, code_verifier>>

\* FileTokenStorage.load after fs.access: no file is the value undefined,
\* a file is read with fs.readFile
AccessDone(c) ==
    /\ pc[c] = "load.access"
    /\ IF store = ENOENT
       THEN AfterLoad(c, UNDEFINED)
       ELSE /\ pc' = [pc EXCEPT ![c] = "load.readFile"]
            /\ UNCHANGED <<header, jwt, code_verifier, trace, drawn>>
    /\ UNCHANGED <<store, entry, code, loginResp, jwtResp, powerResp, power, calls>>

\* FileTokenStorage.load after fs.readFile: the content of the file
ReadFileDone(c) ==
    /\ pc[c] = "load.readFile"
    /\ IF store = ENOENT
       THEN /\ pc' = [pc EXCEPT ![c] = "Failed"]
            /\ UNCHANGED <<header, jwt, code_verifier, trace, drawn>>
       ELSE AfterLoad(c, store)
    /\ UNCHANGED <<store, entry, code, loginResp, jwtResp, powerResp, power, calls>>

\* mutant: the verifier is kept on the instance, so the exchange sends the one
\* generated last
LoginResponse_SharedVerifier(c, status, location) ==
    /\ pc[c] = "get_code"
    /\ loginResp' = [loginResp EXCEPT ![c] = << [status |-> status, location |-> location] >>]
    /\ LET r == get_code(status, location) IN
       IF Thrown(r)
       THEN /\ pc' = [pc EXCEPT ![c] = "Failed"]
            /\ UNCHANGED <<code, trace>>
       ELSE /\ code' = [code EXCEPT ![c] = r[1]]
            /\ pc' = [pc EXCEPT ![c] = "get_jwt"]
            /\ trace' = [trace EXCEPT ![c] = @ \o
                            << <<"POST /auth/get_jwt", generate_code_verifier(drawn), r[1]>> >>]
    /\ UNCHANGED <<store, header, entry, jwt, code_verifier, jwtResp, powerResp, power,
                   calls, drawn>>

\* mutant: a failed login is retried without limit
LoginResponse_RetryForever(c, status, location) ==
    /\ pc[c] = "get_code"
    /\ loginResp' = [loginResp EXCEPT ![c] = << [status |-> status, location |-> location] >>]
    /\ LET r == get_code(status, location) IN
       IF Thrown(r)
       THEN UNCHANGED <<code, trace, pc>>
       ELSE /\ code' = [code EXCEPT ![c] = r[1]]
            /\ pc' = [pc EXCEPT ![c] = "get_jwt"]
            /\ trace' = [trace EXCEPT ![c] = @ \o
                            << <<"POST /auth/get_jwt", code_verifier[c], r[1]>> >>]
    /\ UNCHANGED <<store, header, entry, jwt, code_verifier, jwtResp, powerResp, power,
                   calls, drawn>>

\* mutant: a failed login is retried, the request is issued again
LoginResponse_Retry(c, status, location) ==
    /\ pc[c] = "get_code"
    /\ loginResp' = [loginResp EXCEPT ![c] = << [status |-> status, location |-> location] >>]
    /\ LET r == get_code(status, location) IN
       IF Thrown(r)
       THEN /\ trace' = [trace EXCEPT ![c] = @ \o
                            << <<"POST /login", generate_code_challenge(code_verifier[c])>> >>]
            /\ UNCHANGED <<code, pc>>
       ELSE /\ code' = [code EXCEPT ![c] = r[1]]
            /\ pc' = [pc EXCEPT ![c] = "get_jwt"]
            /\ trace' = [trace EXCEPT ![c] = @ \o
                            << <<"POST /auth/get_jwt", code_verifier[c], r[1]>> >>]
    /\ UNCHANGED <<store, header, entry, jwt, code_verifier, jwtResp, powerResp, power,
                   calls, drawn>>

\* the /login response arrives: get_code returns or throws, and authenticate
\* goes on with get_jwt, which issues its request
LoginResponse(c, status, location) ==
    /\ pc[c] = "get_code"
    /\ loginResp' = [loginResp EXCEPT ![c] = << [status |-> status, location |-> location] >>]
    /\ LET r == get_code(status, location) IN
       IF Thrown(r)
       THEN /\ pc' = [pc EXCEPT ![c] = "Failed"]
            /\ UNCHANGED <<code, trace>>
       ELSE /\ code' = [code EXCEPT ![c] = r[1]]
            /\ pc' = [pc EXCEPT ![c] = "get_jwt"]
            /\ trace' = [trace EXCEPT ![c] = @ \o
                            << <<"POST /auth/get_jwt", code_verifier[c], r[1]>> >>]
    /\ UNCHANGED <<store, header, entry, jwt, code_verifier, jwtResp, powerResp, power,
                   calls, drawn>>

\* the /auth/get_jwt response arrives: get_jwt returns or throws, and
\* authenticate calls token_storage.save(jwt)
JwtResponse(c, status, body) ==
    /\ pc[c] = "get_jwt"
    /\ jwtResp' = [jwtResp EXCEPT ![c] = << [status |-> status, body |-> body] >>]
    /\ LET r == get_jwt(status, body) IN
       IF Thrown(r)
       THEN /\ pc' = [pc EXCEPT ![c] = "Failed"]
            /\ UNCHANGED <<jwt, trace>>
       ELSE /\ jwt' = [jwt EXCEPT ![c] = r[1]]
            /\ trace' = [trace EXCEPT ![c] = @ \o << <<"save", r[1]>> >>]
            /\ pc' = [pc EXCEPT ![c] =
                        IF SaveRejects(r[1]) THEN "Failed" ELSE "save.writeFile"]
    /\ UNCHANGED <<store, header, entry, code_verifier, code, loginResp, powerResp, power,
                   calls, drawn>>

\* FileTokenStorage.save: fs.writeFile replaces the content of the file. The write
\* and the resolution of the promise are two events (write, then close, on the
\* thread pool), so steps of other invocations may fall between them
WriteFile(c) ==
    /\ pc[c] = "save.writeFile"
    /\ store' = jwt[c]
    /\ pc' = [pc EXCEPT ![c] = "save.resolve"]
    /\ UNCHANGED <<header, entry, jwt, code_verifier, code, loginResp, jwtResp, powerResp,
                   power, trace, calls, drawn>>

\* mutant: the header is built from the authorization code instead of the token
WriteFileDone_AttachesCode(c) ==
    /\ pc[c] = "save.resolve"
    /\ Attach(c, code[c], << <<"saved", jwt[c]>> >>)
    /\ UNCHANGED <<store, entry, jwt, code_verifier, code, loginResp, jwtResp, powerResp,
                   power, calls, drawn>>

\* the promise of save() resolves and authenticate sets the header
WriteFileDone(c) ==
    /\ pc[c] = "save.resolve"
    /\ Attach(c, jwt[c], << <<"saved", jwt[c]>> >>)
    /\ UNCHANGED <<store, entry, jwt, code_verifier, code, loginResp, jwtResp, powerResp,
                   power, calls, drawn>>

\* mutant: a 401 from the device evicts the cached token
MetricsResponse_Evicts(c, status, body) ==
    /\ pc[c] = "get_current_power"
    /\ powerResp' = [powerResp EXCEPT ![c] = << [status |-> status, body |-> body] >>]
    /\ power' = [power EXCEPT ![c] = get_current_power(status, body)]
    /\ pc' = [pc EXCEPT ![c] =
                IF Thrown(get_current_power(status, body)) THEN "PowerFailed" ELSE "PowerDone"]
    /\ store' = IF status = 401 THEN ENOENT ELSE store
    /\ UNCHANGED <<header, entry, jwt, code_verifier, code, loginResp, jwtResp,
                   trace, calls, drawn>>

\* the /production.json response arrives: get_current_power returns or throws
MetricsResponse(c, status, body) ==
    /\ pc[c] = "get_current_power"
    /\ powerResp' = [powerResp EXCEPT ![c] = << [status |-> status, body |-> body] >>]
    /\ power' = [power EXCEPT ![c] = get_current_power(status, body)]
    /\ pc' = [pc EXCEPT ![c] =
                IF Thrown(get_current_power(status, body)) THEN "PowerFailed" ELSE "PowerDone"]
    /\ UNCHANGED <<store, header, entry, jwt, code_verifier, code, loginResp, jwtResp,
                   trace, calls, drawn>>

\* the steps an invocation takes once it has started
Step(c, bodies) ==
    /\ \/ AccessDone(c)
       \/ ReadFileDone(c)
       \/ \E status \in LoginStatuses, location \in Locations :
             LoginResponse(c, status, location)
       \/ \E status \in JwtStatuses, body \in JwtBodies : JwtResponse(c, status, body)
       \/ WriteFile(c)
       \/ WriteFileDone(c)
       \/ /\ pc[c] = "get_current_power"
          /\ \E status \in MetricsStatuses, body \in bodies :
                MetricsResponse(c, status, body)
    /\ UNCHANGED pkce

\* invocations may overlap: nothing in Main prevents a call while another is suspended
Next ==
    \E c \in Callers :
        \/ authenticate(c)
        \/ main(c)
        \/ Step(c, SampleBodies)

Spec == Init /\ [][Next]_vars

\* the program as the entry script runs it: a single caller, hence one invocation
\* at a time; the device answers with any body of Bodies
Main == CHOOSE c \in Callers : TRUE

NextSeq ==
    \/ authenticate(Main)
    \/ main(Main)
    \/ Step(Main, Bodies)

SpecSeq == Init /\ [][NextSeq]_vars

\* every file operation and every HTTP round trip eventually returns: a suspended
\* invocation eventually takes its next step
SpecLive == Spec /\ \A c \in Callers : WF_vars(Step(c, SampleBodies))

\* another process removes the token file
FileRemoved ==
    /\ store # ENOENT
    /\ store' = ENOENT
    /\ UNCHANGED <<header, pc, entry, jwt, code_verifier, code, loginResp, jwtResp,
                   powerResp, power, trace, calls, drawn, pkce>>

\* overlapping invocations on a token file that may disappear at any moment
NextFs ==
    \/ Next
    \/ FileRemoved

SpecFs == Init /\ [][NextFs]_vars

\* the two PKCE functions on their own, for every byte string of RandomBytes
InitPkce ==
    /\ InitMain
    /\ pkce \in { PkceRun(bytes) : bytes \in RandomBytes }

\* generate_code_verifier encodes the random bytes
GenerateVerifier ==
    /\ pkce.verifier = <<>>
    /\ pkce' = [pkce EXCEPT !.verifier = << EncodeVerifier(pkce.bytes) >>]
    /\ UNCHANGED <<store, header, pc, entry, jwt, code_verifier, code, loginResp, jwtResp,
                   powerResp, power, trace, calls, drawn>>

\* mutant: the challenge hashes the bytes the verifier text decodes to
ChallengeOf_Decoded(text) == Base64UrlOfDigest(Sha256(pkce.bytes))

\* generate_code_challenge on the verifier text
ChallengeOf(text) == Base64UrlOfDigest(Sha256(Utf8(text)))

\* generate_code_challenge is applied to the verifier
GenerateChallenge ==
    /\ pkce.verifier # <<>>
    /\ pkce.challenge = <<>>
    /\ pkce' = [pkce EXCEPT !.challenge = << ChallengeOf(pkce.verifier[1]) >>]
    /\ UNCHANGED <<store, header, pc, entry, jwt, code_verifier, code, loginResp, jwtResp,
                   powerResp, power, trace, calls, drawn>>

NextPkce ==
    \/ GenerateVerifier
    \/ GenerateChallenge

SpecPkce == InitPkce /\ [][NextPkce]_vars

\* ------------------------------------------------------------ properties
\* the names of the calls and effects of an invocation, in order
Ops(c) == [i \in 1..Len(trace[c]) |-> trace[c][i][1]]
HasOp(c, op) == \E i \in DOMAIN trace[c] : trace[c][i][1] = op
CountOp(c, op) == Cardinality({i \in DOMAIN trace[c] : trace[c][i][1] = op})
IsPrefix(s, t) == Len(s) <= Len(t) /\ \A i \in 1..Len(s) : s[i] = t[i]

Loading == {"load.access", "load.readFile"}
\* authenticate() has returned (under main, get_current_power has been called)
Succeeded(c) == pc[c] \in {"Authenticated", "get_current_power", "PowerDone", "PowerFailed"}
\* what load() returned to this invocation: <<>> while it has not returned
Loaded(c) == IF Len(trace[c]) >= 2 THEN <<trace[c][2][2]>> ELSE <<>>
\* the metrics request of main, present when the invocation entered through main
MetricsRequest(c, token) ==
    IF entry[c] = "main" THEN << <<"GET /production.json", Bearer(token)>> >> ELSE <<>>

\* C1: when load() returns a token value, the step that receives it completes
\* authenticate: it sets the Authorization header to 'Bearer <loaded token>' and
\* changes neither the token file nor the verifier count, and the invocation
\* has issued no /login request, no /auth/get_jwt request and no save()
C1_CacheHitFastPath ==
    [][\A c \in Callers :
          (pc[c] \in Loading /\ pc'[c] \notin Loading /\ jwt'[c] # UNDEFINED) =>
             /\ Succeeded(c)'
             /\ header' = Bearer(jwt'[c])
             /\ store' = store
             /\ drawn' = drawn
             /\ trace'[c] = << <<"load">>, <<"loaded", jwt'[c]>>,
                               <<"Authorization", Bearer(jwt'[c])>> >>
                            \o MetricsRequest(c, jwt'[c])]_vars

C1_Witness ==
    \E c \in Callers :
        /\ pc[c] = "Authenticated"
        /\ Loaded(c) = <<"tok-0">>
        /\ header = "Bearer tok-0"
        /\ ~HasOp(c, "POST /login")

\* the calls and effects of a complete cache-miss handshake that obtained token
\* with the given verifier and code
Handshake(verifier, k, token) ==
    << <<"load">>, <<"loaded", UNDEFINED>>,
       <<"POST /login", generate_code_challenge(verifier)>>,
       <<"POST /auth/get_jwt", verifier, k>>,
       <<"save", token>>, <<"saved", token>>,
       <<"Authorization", Bearer(token)>> >>

\* C2: when load() returned absent, the invocation performs load, /login,
\* /auth/get_jwt, save, header in that order (at every moment its calls are a
\* prefix of that sequence), and when it has succeeded it has saved exactly once,
\* exactly the access_token of the exchange response, and set the header after
\* save() had resolved
C2_HandshakeOrder ==
    \A c \in Callers :
        Loaded(c) = <<UNDEFINED>> =>
            /\ IsPrefix(Ops(c), << "load", "loaded", "POST /login", "POST /auth/get_jwt",
                                   "save", "saved", "Authorization",
                                   "GET /production.json" >>)
            /\ Succeeded(c) =>
                  /\ jwtResp[c] # <<>>
                  /\ trace[c] = Handshake(code_verifier[c], code[c],
                                          jwtResp[c][1].body.access_token)
                                \o MetricsRequest(c, jwtResp[c][1].body.access_token)

C2_Witness ==
    \E c \in Callers :
        /\ pc[c] = "Authenticated"
        /\ trace[c] = Handshake(code_verifier[c], "ABC123", "tok-1")
        /\ store = "tok-1"
        /\ header = "Bearer tok-1"

\* C3: a /login response with a status other than 302 ends the invocation in
\* Failed; that step changes neither the token file nor the header, and the
\* invocation has issued no /auth/get_jwt request and called no save()
C3_LoginFailureAborts ==
    [][\A c \in Callers :
          (pc[c] = "get_code" /\ pc'[c] # "get_code" /\ loginResp'[c][1].status # 302) =>
             /\ pc'[c] = "Failed"
             /\ store' = store
             /\ header' = header
             /\ Ops(c)' = << "load", "loaded", "POST /login" >>]_vars

C3_Witness ==
    \E c \in Callers :
        /\ pc[c] = "Failed"
        /\ loginResp[c] # <<>>
        /\ loginResp[c][1].status = 401
        /\ Ops(c) = << "load", "loaded", "POST /login" >>

\* C4: a 302 login response whose Location URL has no 'code' parameter makes
\* get_code throw: the invocation fails and issues no /auth/get_jwt request
C4_MissingCodeIsFatal ==
    \A c \in Callers :
        ( /\ loginResp[c] # <<>>
          /\ loginResp[c][1].status = 302
          /\ loginResp[c][1].location.url
          /\ SearchParamsGet(loginResp[c][1].location.query, "code") = NULL ) =>
            /\ pc[c] = "Failed"
            /\ ~HasOp(c, "POST /auth/get_jwt")

\* the exchange response is a failure: non-2xx status, or no access_token
ExchangeFailed(r) ==
    \/ r.status \notin 200..299
    \/ ~r.body.parsed
    \/ r.body.access_token = UNDEFINED

\* C5: after a failed exchange response the invocation is Failed, has not called
\* save() and has attached no Authorization header
C5_ExchangeFailureAborts ==
    \A c \in Callers :
        (jwtResp[c] # <<>> /\ ExchangeFailed(jwtResp[c][1])) =>
            /\ pc[c] = "Failed"
            /\ ~HasOp(c, "save")
            /\ ~HasOp(c, "Authorization")

\* C6: an invocation to which load() returned the empty string runs the
\* handshake (its next call is /login) and attaches no empty bearer credential
C6_EmptyTokenIsAbsent ==
    \A c \in Callers :
        Loaded(c) = <<"">> =>
            /\ Len(trace[c]) >= 3
            /\ trace[c][3][1] = "POST /login"
            /\ ~HasOp(c, "Authorization")

\* C7: at most one invocation of authenticate is in flight at a time
C7_Serialized == Cardinality({c \in Callers : InFlight(c)}) <= 1

\* C8: when no invocation is in flight and some authenticate has succeeded (the
\* header is set), the header carries the token the token file holds
C8_SingleLiveToken ==
    ((\A c \in Callers : ~InFlight(c)) /\ header # NoHeader) => header = Bearer(store)

\* C9: under main, the metrics request is the last call of the invocation, it
\* comes right after authenticate set the header, and it carries 'Bearer t' for
\* the t this invocation loaded or saved; an invocation whose authenticate
\* failed has issued no metrics request
C9_MetricsAfterAuthenticate ==
    \A c \in Callers :
        /\ pc[c] = "Failed" => ~HasOp(c, "GET /production.json")
        /\ entry[c] = "main" /\ Succeeded(c) => HasOp(c, "GET /production.json")
        /\ \A i \in DOMAIN trace[c] :
              trace[c][i][1] = "GET /production.json" =>
                 /\ i = Len(trace[c])
                 /\ i > 2
                 /\ trace[c][i - 1] = <<"Authorization", trace[c][i][2]>>
                 /\ trace[c][i - 2][1] \in {"loaded", "saved"}
                 /\ trace[c][i][2] = Bearer(trace[c][i - 2][2])
                 /\ trace[c][i - 2][2] = jwt[c]

C9_Witness ==
    \E c \in Callers :
        /\ pc[c] = "get_current_power"
        /\ trace[c] = Handshake(code_verifier[c], "ABC123", "tok-1")
                      \o << <<"GET /production.json", "Bearer tok-1">> >>

\* C10: after a metrics response, a status other than 200 has made
\* get_current_power throw with no reading; a status of 200 has either thrown
\* with no reading or returned a reading whose three fields are defined; the
\* request was issued once
C10_NoPartialSuccess ==
    \A c \in Callers :
        powerResp[c] # <<>> =>
            /\ CountOp(c, "GET /production.json") = 1
            /\ powerResp[c][1].status # 200 => pc[c] = "PowerFailed" /\ power[c] = <<>>
            /\ powerResp[c][1].status = 200 =>
                  \/ pc[c] = "PowerFailed" /\ power[c] = <<>>
                  \/ /\ pc[c] = "PowerDone"
                     /\ Len(power[c]) = 1
                     /\ power[c][1].production.k # "undefined"
                     /\ power[c][1].consumption.k # "undefined"
                     /\ power[c][1].net.k # "undefined"

C10_Witness ==
    \E c \in Callers :
        /\ pc[c] = "PowerFailed"
        /\ powerResp[c] # <<>>
        /\ powerResp[c][1].status = 401
        /\ power[c] = <<>>

\* the wNow of each entry, and their sum
WNows(items) == [i \in DOMAIN items |-> items[i].wNow]
SumWNow(items) == Reduce(Num(0), WNows(items))
IsEim(item) == item.type = "eim"
IsEimTotal(item) == item.type = "eim" /\ item.measurementType = "total-consumption"
IsNet(item) == item.measurementType = "net-consumption"
IsEimNet(item) == item.type = "eim" /\ item.measurementType = "net-consumption"
\* a 200 response whose body has both arrays
Reducible(c) ==
    /\ powerResp[c] # <<>>
    /\ powerResp[c][1].status = 200
    /\ powerResp[c][1].body.has_production
    /\ powerResp[c][1].body.has_consumption

\* C11: for a 200 response, production is the sum of wNow over the production
\* entries of type 'eim' and consumption the sum of wNow over the consumption
\* entries of type 'eim' and measurementType 'total-consumption'; with no matching
\* entry (empty arrays included) the value is 0 and nothing is thrown
C11_ProductionConsumption ==
    \A c \in Callers :
        Reducible(c) =>
            LET body == powerResp[c][1].body
                prod == SelectSeq(body.production, IsEim)
                cons == SelectSeq(body.consumption, IsEimTotal)
            IN /\ pc[c] = "PowerDone"
               /\ power[c][1].production = SumWNow(prod)
               /\ power[c][1].consumption = SumWNow(cons)
               /\ prod = <<>> => power[c][1].production = Num(0)
               /\ cons = <<>> => power[c][1].consumption = Num(0)

C11_Witness ==
    \E c \in Callers :
        /\ Reducible(c)
        /\ powerResp[c][1].body.production =
              << [type |-> "eim", wNow |-> Num(1)], [type |-> "inverters", wNow |-> Num(-2)] >>
        /\ power[c] # <<>>
        /\ power[c][1].production = Num(1)
        /\ power[c][1].consumption = Num(0)

\* C12 as stated: net is the sum of wNow over every consumption entry of
\* measurementType 'net-consumption', whatever its type
C12_NetAnyType ==
    \A c \in Callers :
        Reducible(c) =>
            /\ power[c] # <<>>
            /\ power[c][1].net =
                  SumWNow(SelectSeq(powerResp[c][1].body.consumption, IsNet))

\* C12 amended: net is the sum of wNow over the consumption entries of type 'eim'
\* and measurementType 'net-consumption'; every other entry contributes zero
C12_NetEimOnly ==
    \A c \in Callers :
        Reducible(c) =>
            /\ power[c] # <<>>
            /\ power[c][1].net =
                  SumWNow(SelectSeq(powerResp[c][1].body.consumption, IsEimNet))

C12_Witness ==
    \E c \in Callers :
        /\ Reducible(c)
        /\ powerResp[c][1].body.consumption =
              << [type |-> "other", measurementType |-> "net-consumption", wNow |-> Num(1)],
                 [type |-> "eim", measurementType |-> "net-consumption", wNow |-> Num(-2)] >>
        /\ power[c] # <<>>
        /\ power[c][1].net = Num(-2)

\* C13: load() never raises: no invocation fails before load() has returned to
\* it, also when the token file disappears while load() is running
C13_LoadNeverThrows ==
    \A c \in Callers : pc[c] = "Failed" => Loaded(c) # <<>>

\* the session state of an invocation, read off the await it is suspended at
SessionState(c) ==
    CASE pc[c] = "idle" -> "Idle"
      [] pc[c] \in Loading -> "Unauthenticated"
      [] pc[c] = "get_code" -> "CodeRequested"
      [] pc[c] = "get_jwt" -> "CodeObtained"
      [] pc[c] \in {"save.writeFile", "save.resolve"} -> "TokenObtained"
      [] pc[c] = "Failed" -> "Failed"
      [] OTHER -> "Authenticated"

\* the place of a session state in the handshake
Rank(state) ==
    CASE state = "Unauthenticated" -> 1
      [] state = "CodeRequested" -> 2
      [] state = "CodeObtained" -> 3
      [] state = "TokenObtained" -> 4
      [] state = "Authenticated" -> 5
      [] OTHER -> 0

\* C14: an invocation issues at most one /login, one /auth/get_jwt and one
\* save(); while it runs, its session state only moves forward in the order
\* Unauthenticated, CodeRequested, CodeObtained, TokenObtained, Authenticated, or
\* to Failed; once Failed it takes no further step and makes no further call
C14_LinearNoRetry ==
    [][\A c \in Callers :
          /\ CountOp(c, "POST /login")' <= 1
          /\ CountOp(c, "POST /auth/get_jwt")' <= 1
          /\ CountOp(c, "save")' <= 1
          /\ (InFlight(c) \/ pc'[c] # "load.access") =>
                /\ IsPrefix(trace[c], trace'[c])
                /\ SessionState(c) = "Failed" =>
                      pc'[c] = pc[c] /\ trace'[c] = trace[c]
                /\ (InFlight(c) /\ SessionState(c)' # SessionState(c)) =>
                      \/ SessionState(c)' = "Failed"
                      \/ Rank(SessionState(c)') > Rank(SessionState(c))]_vars

C14_Witness ==
    \E c \in Callers :
        /\ pc[c] = "Failed"
        /\ jwtResp[c] # <<>>
        /\ Ops(c) = << "load", "loaded", "POST /login", "POST /auth/get_jwt" >>

\* C15: in an invocation that has sent the exchange request, the code_verifier
\* sent is the one whose challenge its own /login request carried, the code sent
\* is the 'code' parameter of its own login response, and neither that verifier
\* nor its challenge appears in a request of another invocation
C15_PkceBinding ==
    \A c \in Callers :
        HasOp(c, "POST /auth/get_jwt") =>
            LET login == trace[c][3]
                exchange == trace[c][4]
            IN /\ login[1] = "POST /login"
               /\ exchange[1] = "POST /auth/get_jwt"
               /\ login[2] = generate_code_challenge(exchange[2])
               /\ exchange[3] = SearchParamsGet(loginResp[c][1].location.query, "code")
               /\ \A d \in Callers \ {c} : \A i \in DOMAIN trace[d] :
                     /\ trace[d][i][1] = "POST /login" =>
                           trace[d][i][2] # generate_code_challenge(exchange[2])
                     /\ trace[d][i][1] = "POST /auth/get_jwt" =>
                           trace[d][i][2] # exchange[2]

C15_Witness ==
    \E c \in Callers : \E d \in Callers \ {c} :
        /\ pc[c] = "get_jwt"
        /\ pc[d] = "get_jwt"
        /\ trace[c][4] = <<"POST /auth/get_jwt", "v1", "ABC123">>
        /\ trace[d][4] = <<"POST /auth/get_jwt", "v2", NULL>>

\* C16: the step that ends get_current_power, whatever the status, changes
\* neither the token file nor the header and issues no request; once the token
\* file exists its content never changes and no verifier is generated (no login
\* is started), and every load() that completes hands the stored token to
\* authenticate, which succeeds there without a /login request
C16_NoEviction ==
    [][/\ \A c \in Callers :
             (pc[c] = "get_current_power" /\ pc'[c] # "get_current_power") =>
                /\ pc'[c] \in {"PowerDone", "PowerFailed"}
                /\ store' = store
                /\ header' = header
                /\ trace' = trace
                /\ drawn' = drawn
       /\ store # ENOENT =>
             /\ store' = store
             /\ drawn' = drawn
             /\ \A c \in Callers :
                   (pc[c] \in Loading /\ pc'[c] \notin Loading) =>
                      /\ Succeeded(c)'
                      /\ jwt'[c] = store
                      /\ header' = Bearer(store)
                      /\ ~HasOp(c, "POST /login")']_vars

C16_Witness ==
    \E c \in Callers :
        /\ calls = 3
        /\ pc[c] = "PowerFailed"
        /\ powerResp[c][1].status = 401
        /\ Loaded(c) = <<"tok-1">>
        /\ store = "tok-1"
        /\ header = "Bearer tok-1"

\* C17: once a handshake has saved token t (the file holds a token of the
\* device), every step leaves the file holding t; outside the saving invocation
\* the header is 'Bearer t'; and an invocation that load() handed a token to is
\* the fast path only: load, header 'Bearer t' (and the metrics request under
\* main), with no /login, no /auth/get_jwt and no save()
C17_Idempotent ==
    [][(store \in Tokens) =>
          ( /\ store' = store
            /\ (\A c \in Callers : pc'[c] # "save.resolve") => header' = Bearer(store)
            /\ \A c \in Callers :
                  (Loaded(c)' # <<>> /\ Loaded(c)' # <<UNDEFINED>>) =>
                     /\ Succeeded(c)'
                     /\ trace'[c] = (<< <<"load">>, <<"loaded", store>>,
                                        <<"Authorization", Bearer(store)>> >>
                                     \o MetricsRequest(c, store)') )]_vars

C17_Witness ==
    \E c \in Callers :
        /\ calls = 3
        /\ pc[c] = "Authenticated"
        /\ store = "tok-2"
        /\ header = "Bearer tok-2"
        /\ trace[c] = << <<"load">>, <<"loaded", "tok-2">>,
                         <<"Authorization", "Bearer tok-2">> >>

\* authenticate() has been called and has neither returned nor thrown
InAuthenticate(c) ==
    pc[c] \in Loading \cup {"get_code", "get_jwt", "save.writeFile", "save.resolve"}

\* C18: when every file operation and HTTP round trip returns, an invocation of
\* authenticate() eventually is Authenticated or Failed; it does not stay in
\* Unauthenticated, CodeRequested, CodeObtained or TokenObtained for ever
C18_Terminates ==
    \A c \in Callers : InAuthenticate(c) ~> (Succeeded(c) \/ pc[c] = "Failed")

C18_Witness ==
    \E c \in Callers :
        /\ pc[c] = "Failed"
        /\ Ops(c) = << "load", "loaded", "POST /login", "POST /auth/get_jwt", "save" >>


\* C19 as stated: the digest of the challenge is computed over the raw random
\* bytes of the verifier
C19_HashOverRawBytes ==
    pkce.challenge # <<>> =>
        pkce.challenge[1] = Base64UrlOfDigest(Sha256(pkce.bytes))

\* C19 amended: the digest of the challenge is computed over the characters of
\* the verifier text, one byte per character, which are not the raw random bytes
C19_HashOverText ==
    pkce.challenge # <<>> =>
        LET input == pkce.challenge[1].base64url.sha256
            text == pkce.verifier[1]
        IN /\ Len(input) = Len(text)
           /\ \A i \in DOMAIN text : input[i] = CharCode(text[i])
           /\ input # pkce.bytes

C19_Witness ==
    /\ pkce.bytes = <<251, 255>>
    /\ pkce.verifier = << <<"-", "_", "8">> >>
    /\ pkce.challenge = << Base64UrlOfDigest(Sha256(<<45, 95, 56>>)) >>

====
